---- MODULE Spec2Model ----
(***************************************************************************)
(* money-monitor: the calendar value (units/date.rs), the monetary value   *)
(* (units/amount.rs) and the bank-file import (import.rs).                 *)
(*                                                                         *)
(* A text (&str) is a sequence of characters, each character a one-letter  *)
(* string; str::len counts UTF-8 bytes, see Utf8Len.                       *)
(***************************************************************************)
EXTENDS Integers, Sequences, FiniteSets, TLC

VARIABLES
    pc,       \* position of the caller: which call comes next
    day,      \* Date::new argument `day: u8`
    month,    \* Date::new argument `month: Month`
    year,     \* Date::new argument `year: u16`
    date,     \* Result<Date, String> returned by Date::new
    text,     \* the &str handed to Date::from_yyyy_mm_dd
    sep,      \* the separator char handed to Date::from_yyyy_mm_dd
    parsed,   \* Option<Date> returned by Date::from_yyyy_mm_dd
    leap,     \* results of is_leap_year / nb_days_in_month(February)
    runs      \* the imports in progress: reader state and emitted lines

vars == <<pc, day, month, year, date, text, sep, parsed, leap, runs>>

(***************************************************************************)
(* Bounds of the model.                                                    *)
(***************************************************************************)
YearSpan == 9        \* years taken after each base year of YearBases
MaxComponents == 4   \* separator-joined components of a text to parse
MaxRows == 3         \* records of an imported file
MaxPairRows == 2     \* records of each file of a pair of imports

(***************************************************************************)
(* Integer widths.                                                         *)
(***************************************************************************)
U8Max == 255
U16Max == 65535

(***************************************************************************)
(* Option<T> and Result<T, E>.                                             *)
(***************************************************************************)
None == [some |-> FALSE]
Some(v) == [some |-> TRUE, val |-> v]
Ok(v) == [ok |-> TRUE, val |-> v]
Err(e) == [ok |-> FALSE, err |-> e]

(***************************************************************************)
(* Month                                                                   *)
(***************************************************************************)
Months == <<"January", "February", "March", "April", "May", "June", "July",
            "August", "September", "October", "November", "December">>

Month == {Months[i] : i \in 1..12}

\* The double-negative slip: a century year counts as a leap year.
is_leap_year_century(y) ==
    (y % 4 = 0 /\ y % 100 = 0) \/ y % 400 = 0

\* Date::is_leap_year (&& binds tighter than ||)
is_leap_year(y) ==
    (y % 4 = 0 /\ y % 100 # 0) \/ y % 400 = 0

\* A February that ignores the year.
nb_days_in_month_fixed_feb(y, m) ==
    IF m \in {"January", "March", "May", "July", "August", "October", "December"}
    THEN 31
    ELSE IF m \in {"April", "June", "September", "November"}
    THEN 30
    ELSE 28

\* Date::nb_days_in_month, self reduced to its year
nb_days_in_month(y, m) ==
    IF m \in {"January", "March", "May", "July", "August", "October", "December"}
    THEN 31
    ELSE IF m \in {"April", "June", "September", "November"}
    THEN 30
    ELSE IF is_leap_year(y) THEN 29 ELSE 28

\* Date::new with an off-by-one upper bound.
Date_new_off_by_one(d, m, y) ==
    LET max_day == nb_days_in_month(y, m)
    IN  IF d >= max_day THEN Err("DayExceedsMonth")
        ELSE IF d < 1 THEN Err("DayBelowOne")
        ELSE Ok([day |-> d, month |-> m, year |-> y])

\* Date::new
Date_new(d, m, y) ==
    LET max_day == nb_days_in_month(y, m)
    IN  IF d > max_day THEN Err("DayExceedsMonth")
        ELSE IF d < 1 THEN Err("DayBelowOne")
        ELSE Ok([day |-> d, month |-> m, year |-> y])

\* Month::from_number
Month_from_number(number) ==
    IF number \in 1..12 THEN Ok(Months[number]) ELSE Err("MonthDoesNotExist")

(***************************************************************************)
(* Texts                                                                   *)
(***************************************************************************)
DigitChars == <<"0", "1", "2", "3", "4", "5", "6", "7", "8", "9">>

IsDigit(c) == \E i \in 1..10 : DigitChars[i] = c

DigitVal(c) == (CHOOSE i \in 1..10 : DigitChars[i] = c) - 1

\* bytes of a character in UTF-8: the accented letters of the French month
\* names and of the bank's labels take two
Utf8Len(c) == IF c \in {"é", "û", "â", "ä"} THEN 2 ELSE 1

\* str::len
RECURSIVE StrLen(_)
StrLen(s) == IF s = <<>> THEN 0 ELSE Utf8Len(Head(s)) + StrLen(Tail(s))

\* str::split(sep).collect::<Vec<_>>(): the pieces between the separators,
\* one more than there are separators (an empty text gives one empty piece)
RECURSIVE SplitFrom(_, _, _)
SplitFrom(s, c, cur) ==
    IF s = <<>> THEN <<cur>>
    ELSE IF Head(s) = c THEN <<cur>> \o SplitFrom(Tail(s), c, <<>>)
    ELSE SplitFrom(Tail(s), c, Append(cur, Head(s)))

Split(s, c) == SplitFrom(s, c, <<>>)

\* slice::get
VecGet(vec, idx) == IF idx < Len(vec) THEN Some(vec[idx + 1]) ELSE None

\* The digits of core::num from_str_radix(_, 10) for an unsigned type of
\* 8, 16 or 32 bits: result = result.checked_mul(10)?.checked_add(digit)?.
\* The accumulator is kept in two 16-bit limbs.
RECURSIVE ParseDigits(_, _, _)
ParseDigits(digits, acc, bits) ==
    IF digits = <<>> THEN Some(acc)
    ELSE IF ~IsDigit(Head(digits)) THEN None
    ELSE LET lo == acc.lo * 10 + DigitVal(Head(digits))
             hi == acc.hi * 10 + (lo \div (U16Max + 1))
             next == [hi |-> hi, lo |-> lo % (U16Max + 1)]
             fits == IF bits = 8 THEN hi = 0 /\ lo <= U8Max
                     ELSE IF bits = 16 THEN hi = 0
                     ELSE hi <= U16Max
         IN  IF fits THEN ParseDigits(Tail(digits), next, bits) ELSE None

\* str::parse::<u8 / u16 / u32>(): an empty text and a lone sign are errors,
\* one leading '+' is skipped, a '-' is an invalid digit of an unsigned type
ParseUnsigned(s, bits) ==
    IF s = <<>> THEN None
    ELSE IF Len(s) = 1 /\ s[1] \in {"+", "-"} THEN None
    ELSE ParseDigits(IF s[1] = "+" THEN Tail(s) ELSE s, [hi |-> 0, lo |-> 0], bits)

\* Date::from_yyyy_mm_dd
from_yyyy_mm_dd(t, c) ==
    LET split == Split(t, c)
        day_str == VecGet(split, 2)
        month_str == VecGet(split, 1)
        year_str == VecGet(split, 0)
    IN  IF ~day_str.some THEN None
        ELSE IF StrLen(day_str.val) # 2 THEN None
        ELSE LET d == ParseUnsigned(day_str.val, 8)
        IN  IF ~d.some THEN None
        ELSE IF ~month_str.some THEN None
        ELSE IF StrLen(month_str.val) # 2 THEN None
        ELSE LET n == ParseUnsigned(month_str.val, 8)
        IN  IF ~n.some THEN None
        ELSE LET m == Month_from_number(n.val.lo)
        IN  IF ~m.ok THEN None
        ELSE IF ~year_str.some THEN None
        ELSE IF StrLen(year_str.val) # 4 THEN None
        ELSE LET y == ParseUnsigned(year_str.val, 16)
        IN  IF ~y.some THEN None
        ELSE LET r == Date_new(d.val.lo, m.val, y.val.lo)
        IN  IF r.ok THEN Some(r.val) ELSE None

\* Display of an unsigned integer: decimal, no padding
RECURSIVE ToDecimal(_)
ToDecimal(n) ==
    IF n < 10 THEN <<DigitChars[n + 1]>>
    ELSE Append(ToDecimal(n \div 10), DigitChars[(n % 10) + 1])

\* impl Display for Month
MonthWord(m) ==
    CASE m = "January" -> <<"j", "a", "n", "v", "i", "e", "r">>
      [] m = "February" -> <<"f", "é", "v", "r", "i", "e", "r">>
      [] m = "March" -> <<"m", "a", "r", "s">>
      [] m = "April" -> <<"a", "v", "r", "i", "l">>
      [] m = "May" -> <<"m", "a", "i">>
      [] m = "June" -> <<"j", "u", "i", "n">>
      [] m = "July" -> <<"j", "u", "i", "l", "l", "e", "t">>
      [] m = "August" -> <<"a", "o", "û", "t">>
      [] m = "September" -> <<"s", "e", "p", "t", "e", "m", "b", "r", "e">>
      [] m = "October" -> <<"o", "c", "t", "o", "b", "r", "e">>
      [] m = "November" -> <<"n", "o", "v", "e", "m", "b", "r", "e">>
      [] m = "December" -> <<"d", "é", "c", "e", "m", "b", "r", "e">>

\* impl Display for Date: "{} {} {}" of day, month, year
DateDisplay(d) ==
    ToDecimal(d.day) \o <<" ">> \o MonthWord(d.month) \o <<" ">> \o ToDecimal(d.year)

(***************************************************************************)
(* Calls of the calendar value: the arguments are drawn at the start.      *)
(***************************************************************************)
Unset == [unset |-> TRUE]

YearBases == {0, 96, 396, 1896, 1996, 2016, 65526}

Years == UNION { {y \in b..(b + YearSpan) : y <= U16Max} : b \in YearBases }

Components ==
    { <<"2", "0", "2", "5">>, <<"2", "0", "2", "4">>, <<"2", "5">>,
      <<"0", "9">>, <<"0", "2">>, <<"9">>,
      <<"1", "5">>, <<"2", "9">>, <<"4", "2">>, <<"+", "5">> }

Separators == {"-", " "}

RECURSIVE Join(_, _)
Join(parts, c) ==
    IF Len(parts) = 1 THEN parts[1]
    ELSE parts[1] \o <<c>> \o Join(Tail(parts), c)

InitDate ==
    /\ runs = <<>>
    /\ leap = Unset
    /\ date = Unset
    /\ parsed = Unset
    /\ \/ /\ pc = "new"
          /\ day \in 0..U8Max
          /\ month \in Month
          /\ year \in Years
          /\ sep = " "
          /\ text = <<>>
       \/ /\ pc = "parse"
          /\ day = 0
          /\ month = "January"
          /\ year = 0
          /\ sep \in Separators
          /\ \E n \in 1..MaxComponents :
                \E parts \in [1..n -> Components] : text = Join(parts, sep)

\* let date = Date::new(day, month, year)
DateNew ==
    /\ pc = "new"
    /\ date' = Date_new(day, month, year)
    /\ pc' = IF date'.ok THEN "to_string" ELSE "rejected"
    /\ UNCHANGED <<day, month, year, text, sep, parsed, leap, runs>>

\* let text = date.to_string()
DateToString ==
    /\ pc = "to_string"
    /\ text' = DateDisplay(date.val)
    /\ pc' = "reparse"
    /\ UNCHANGED <<day, month, year, date, sep, parsed, leap, runs>>

\* let parsed = Date::from_yyyy_mm_dd(text, sep)
FromYyyyMmDd ==
    /\ pc \in {"parse", "reparse"}
    /\ parsed' = from_yyyy_mm_dd(text, sep)
    /\ pc' = IF pc = "parse" THEN "parsed" ELSE "reparsed"
    /\ UNCHANGED <<day, month, year, date, text, sep, leap, runs>>

NextDate == DateNew \/ DateToString \/ FromYyyyMmDd

SpecDate == InitDate /\ [][NextDate]_vars

InitLeap ==
    /\ runs = <<>>
    /\ leap = Unset
    /\ date = Unset
    /\ parsed = Unset
    /\ pc = "leap"
    /\ day = 1
    /\ month = "February"
    /\ year \in 0..U16Max
    /\ sep = " "
    /\ text = <<>>

\* date.is_leap_year() and date.nb_days_in_month(Month::February)
LeapYear ==
    /\ pc = "leap"
    /\ leap' = [is_leap |-> is_leap_year(year),
                february |-> nb_days_in_month(year, "February")]
    /\ pc' = "leap_done"
    /\ UNCHANGED <<day, month, year, date, text, sep, parsed, runs>>

NextLeap == LeapYear

SpecLeap == InitLeap /\ [][NextLeap]_vars

(***************************************************************************)
(* The Gregorian calendar, as the reference the claims compare with.       *)
(***************************************************************************)
GregorianLeap(y) ==
    IF y % 400 = 0 THEN TRUE
    ELSE IF y % 100 = 0 THEN FALSE
    ELSE y % 4 = 0

GregorianDays(m, y) ==
    LET table == <<31, IF GregorianLeap(y) THEN 29 ELSE 28, 31, 30, 31, 30,
                   31, 31, 30, 31, 30, 31>>
    IN  table[CHOOSE i \in 1..12 : Months[i] = m]

ExistsInCalendar(d, m, y) == 1 <= d /\ d <= GregorianDays(m, y)

\* Date::new has returned for the drawn (day, month, year)
NewReturned == pc \in {"to_string", "reparse", "reparsed", "rejected"}

\* Date::from_yyyy_mm_dd has returned
ParseReturned == pc \in {"parsed", "reparsed"}

\* C1: Date::new(day, month, year) is Ok, holding exactly the given day, month
\* and year, if and only if 1 <= day <= days_in_month(month, year) of the
\* Gregorian table; so every date from Date::new or Date::from_yyyy_mm_dd has
\* its day within its month.
C1_NewOkIffDayInMonth ==
    /\ NewReturned =>
          /\ date.ok <=> ExistsInCalendar(day, month, year)
          /\ date.ok => date.val = [day |-> day, month |-> month, year |-> year]
    /\ (ParseReturned /\ parsed.some) =>
          ExistsInCalendar(parsed.val.day, parsed.val.month, parsed.val.year)

C1_Witness_Feb29Of1900Rejected ==
    /\ pc = "rejected"
    /\ day = 29 /\ month = "February" /\ year = 1900
    /\ ~date.ok

\* C2 as stated: every valid (day, month, year) is accepted by Date::new, and
\* rendering the date with Display then re-parsing the rendered text with
\* Date::from_yyyy_mm_dd yields a date equal to the original.
C2_DisplayThenParseRoundTrips ==
    /\ (NewReturned /\ ExistsInCalendar(day, month, year)) => date.ok
    /\ pc = "reparsed" => parsed = Some(date.val)

\* C2 amended: every valid (day, month, year) is accepted by Date::new, and
\* the Display text "<day> <month word> <year>" is not in the layout
\* Date::from_yyyy_mm_dd reads: re-parsing it yields absence.
C2_DisplayTextIsNotReparsed ==
    /\ (NewReturned /\ ExistsInCalendar(day, month, year)) => date.ok
    /\ pc = "reparsed" => ~parsed.some

C2_Witness_ValidDateReparsed ==
    /\ pc = "reparsed"
    /\ date.ok /\ date.val = [day |-> 15, month |-> "May", year |-> 9]
    /\ text = <<"1", "5", " ", "m", "a", "i", " ", "9">>

\* the text is YYYY{sep}MM{sep}DD: ten characters, digits but for the two
\* separators, naming a month 1..12 and a day of that month
StrictLayout(t, c) ==
    /\ Len(t) = 10
    /\ \A i \in {1, 2, 3, 4, 6, 7, 9, 10} : IsDigit(t[i])
    /\ t[5] = c /\ t[8] = c
    /\ LET y == 1000 * DigitVal(t[1]) + 100 * DigitVal(t[2])
                + 10 * DigitVal(t[3]) + DigitVal(t[4])
           n == 10 * DigitVal(t[6]) + DigitVal(t[7])
           d == 10 * DigitVal(t[9]) + DigitVal(t[10])
       IN  /\ n \in 1..12
           /\ ExistsInCalendar(d, Months[n], y)

\* C3: Date::from_yyyy_mm_dd(text, sep) returns a date only when the text is
\* exactly YYYY{sep}MM{sep}DD (three components of 4, 2 and 2 decimal digits)
\* naming an existing calendar date.
C3_ParsesOnlyStrictLayout ==
    (ParseReturned /\ parsed.some) => StrictLayout(text, sep)

\* C10: is_leap_year is true exactly for the years divisible by 4 and not by
\* 100, or divisible by 400 (1900 and 2025 are not leap, 2000 and 2024 are),
\* and February has 29 days exactly in those years and 28 in the others.
C10_LeapYearIsGregorian ==
    pc = "leap_done" =>
        /\ leap.is_leap <=> GregorianLeap(year)
        /\ leap.february = IF GregorianLeap(year) THEN 29 ELSE 28
        /\ year \in {1900, 2025} => ~leap.is_leap
        /\ year \in {2000, 2024} => leap.is_leap

C10_Witness_1900NotLeap ==
    /\ pc = "leap_done"
    /\ year = 1900
    /\ ~leap.is_leap
    /\ leap.february = 28

(***************************************************************************)
(* Amount                                                                  *)
(***************************************************************************)
\* value of a run of decimal digits
RECURSIVE DecimalValue(_)
DecimalValue(digits) ==
    IF digits = <<>> THEN 0
    ELSE 10 * DecimalValue(SubSeq(digits, 1, Len(digits) - 1))
         + DigitVal(digits[Len(digits)])

\* a decimal coefficient * 10^-scale without trailing fractional zeros, so that
\* equal numbers are equal values
RECURSIVE Normalized(_, _)
Normalized(coeff, scale) ==
    IF scale > 0 /\ coeff % 10 = 0 THEN Normalized(coeff \div 10, scale - 1)
    ELSE [coeff |-> coeff, scale |-> scale]

\* str::parse::<f64>() on the texts of sign, digits and '.': an optional sign,
\* then digits with at most one '.', at least one digit in all.  (The exponent,
\* "inf" and "nan" forms need the letters e, i, n, f, which no amount field of
\* the modelled files spells.)
ParseF64(s) ==
    IF s = <<>> THEN None
    ELSE LET signed == s[1] \in {"+", "-"}
             body == IF signed THEN Tail(s) ELSE s
             parts == Split(body, ".")
             int_part == parts[1]
             frac_part == IF Len(parts) = 2 THEN parts[2] ELSE <<>>
             all == int_part \o frac_part
         IN  IF \/ Len(parts) > 2
                \/ all = <<>>
                \/ \E i \in 1..Len(all) : ~IsDigit(all[i])
             THEN None
             ELSE LET magnitude == DecimalValue(all)
                  IN  Some(Normalized(IF s[1] = "-" THEN 0 - magnitude ELSE magnitude,
                                      Len(frac_part)))

\* Amount::euro
Amount_euro(amount) == [amount |-> amount]

\* Amount::parse_euro
parse_euro(string) ==
    LET amount == ParseF64(string)
    IN  IF ~amount.some THEN None ELSE Some(Amount_euro(amount.val))

\* str::replace(from, to) for single characters
Replace(s, from, to) == [i \in 1..Len(s) |-> IF s[i] = from THEN to ELSE s[i]]

(***************************************************************************)
(* Import                                                                  *)
(***************************************************************************)
\* BankLine::new
BankLine_new(date_op, date_val, label, category, supplier_found, amount, comment, account_number, account_label, account_balance) ==
    [date_op |-> date_op,
     date_val |-> date_val,
     label |-> label,
     category |-> category,
     sender_reciever |-> supplier_found,
     amount |-> amount,
     comment |-> comment,
     account_number |-> account_number,
     account_label |-> account_label,
     account_balance |-> account_balance]

\* The category columns in the order of the file.
Boursobank_file_order ==
    [sep |-> ";", date_op_idx |-> 0, date_val_idx |-> 1, label_idx |-> 2,
     category_idx |-> <<3, 4>>, supplyer_found_idx |-> 5, amount_idx |-> 6,
     comment_idx |-> 7, account_number_idx |-> 8, account_label_idx |-> 9,
     account_balance_idx |-> 10]

\* the column layout from_boursobank_csv hands to from_csv
Boursobank ==
    [sep |-> ";", date_op_idx |-> 0, date_val_idx |-> 1, label_idx |-> 2,
     category_idx |-> <<4, 3>>, supplyer_found_idx |-> 5, amount_idx |-> 6,
     comment_idx |-> 7, account_number_idx |-> 8, account_label_idx |-> 9,
     account_balance_idx |-> 10]

\* the closure |s| Date::from_yyyy_mm_dd(s, '-')
date_parser(s) == from_yyyy_mm_dd(s, "-")

\* the closure |s| Amount::parse_euro(s.replace(',', "."))
amount_parser(s) == parse_euro(Replace(s, ",", "."))

\* The closure with an account number that falls back to 0.
per_row_default_account(cfg, vec) ==
    LET f_date_op == VecGet(vec, cfg.date_op_idx)
        f_date_val == VecGet(vec, cfg.date_val_idx)
        f_label == VecGet(vec, cfg.label_idx)
        f_category == [i \in 1..Len(cfg.category_idx) |->
                          VecGet(vec, cfg.category_idx[i])]
        f_supplier == VecGet(vec, cfg.supplyer_found_idx)
        f_amount == VecGet(vec, cfg.amount_idx)
        f_comment == VecGet(vec, cfg.comment_idx)
        f_number == VecGet(vec, cfg.account_number_idx)
        f_account == VecGet(vec, cfg.account_label_idx)
        f_balance == VecGet(vec, cfg.account_balance_idx)
    IN  IF \/ ~f_date_op.some \/ ~f_date_val.some \/ ~f_label.some
           \/ \E i \in 1..Len(f_category) : ~f_category[i].some
           \/ ~f_supplier.some \/ ~f_amount.some \/ ~f_comment.some
           \/ ~f_number.some \/ ~f_account.some \/ ~f_balance.some
        THEN None
        ELSE LET date_op == date_parser(f_date_op.val)
                 date_val == date_parser(f_date_val.val)
                 amount == amount_parser(f_amount.val)
                 number == ParseUnsigned(f_number.val, 32)
                 balance == amount_parser(f_balance.val)
             IN  IF ~date_op.some \/ ~date_val.some \/ ~amount.some \/ ~balance.some
                 THEN None
                 ELSE Some(BankLine_new(
                          date_op.val, date_val.val, f_label.val,
                          [i \in 1..Len(f_category) |-> f_category[i].val],
                          f_supplier.val, amount.val, f_comment.val,
                          IF number.some THEN number.val ELSE [hi |-> 0, lo |-> 0],
                          f_account.val, balance.val))

\* the closure from_csv maps over the records: each `?` ends it with None
per_row(cfg, vec) ==
    LET f_date_op == VecGet(vec, cfg.date_op_idx)
    IN  IF ~f_date_op.some THEN None
    ELSE LET date_op == date_parser(f_date_op.val)
    IN  IF ~date_op.some THEN None
    ELSE LET f_date_val == VecGet(vec, cfg.date_val_idx)
    IN  IF ~f_date_val.some THEN None
    ELSE LET date_val == date_parser(f_date_val.val)
    IN  IF ~date_val.some THEN None
    ELSE LET label == VecGet(vec, cfg.label_idx)
    IN  IF ~label.some THEN None
    ELSE LET f_category == [i \in 1..Len(cfg.category_idx) |->
                               VecGet(vec, cfg.category_idx[i])]
    IN  IF \E i \in 1..Len(f_category) : ~f_category[i].some THEN None
    ELSE LET category == [i \in 1..Len(f_category) |-> f_category[i].val]
             supplier_found == VecGet(vec, cfg.supplyer_found_idx)
    IN  IF ~supplier_found.some THEN None
    ELSE LET f_amount == VecGet(vec, cfg.amount_idx)
    IN  IF ~f_amount.some THEN None
    ELSE LET amount == amount_parser(f_amount.val)
    IN  IF ~amount.some THEN None
    ELSE LET comment == VecGet(vec, cfg.comment_idx)
    IN  IF ~comment.some THEN None
    ELSE LET f_number == VecGet(vec, cfg.account_number_idx)
    IN  IF ~f_number.some THEN None
    ELSE LET account_number == ParseUnsigned(f_number.val, 32)
    IN  IF ~account_number.some THEN None
    ELSE LET account_label == VecGet(vec, cfg.account_label_idx)
    IN  IF ~account_label.some THEN None
    ELSE LET f_balance == VecGet(vec, cfg.account_balance_idx)
    IN  IF ~f_balance.some THEN None
    ELSE LET account_balance == amount_parser(f_balance.val)
    IN  IF ~account_balance.some THEN None
    ELSE Some(BankLine_new(date_op.val, date_val.val, label.val, category,
                           supplier_found.val, amount.val, comment.val,
                           account_number.val, account_label.val,
                           account_balance.val))

\* csv::ReaderBuilder::new(): has_headers(true), so the first record is kept
\* as the headers and never yielded, and flexible(false), so a record whose
\* number of fields differs from the first record's is an Err(UnequalLengths)
has_headers == TRUE
flexible == FALSE

\* the reader over a file given as its tokenized records
Reader(file) ==
    [records |-> file,            \* what the byte source holds
     pos |-> 0,                   \* records read so far
     first_field_count |-> None,  \* set by the first record read
     status |-> "reading",
     emitted |-> <<>>,            \* the BankLines the iterator has yielded
     source |-> <<>>]             \* the record each came from (history)

\* the record the next read returns
NextRecord(run) == run.records[run.pos + 1]

\* Result::is_ok of the next read
RecordIsOk(run) ==
    \/ flexible
    \/ ~run.first_field_count.some
    \/ Len(NextRecord(run)) = run.first_field_count.val

\* A reader that unwraps each record.
OnBadRecord_unwrap(run) == [run EXCEPT !.status = "panicked"]

\* .filter_map(Result::ok): an Err record is passed over
OnBadRecord(run) == [run EXCEPT !.pos = @ + 1]

HeaderRow ==
    << <<"d", "a", "t", "e", "O", "p">>,
       <<"d", "a", "t", "e", "V", "a", "l">>,
       <<"l", "a", "b", "e", "l">>,
       <<"c", "a", "t", "e", "g", "o", "r", "y">>,
       <<"c", "a", "t", "e", "g", "o", "r", "y", "P", "a", "r", "e", "n", "t">>,
       <<"s", "u", "p", "p", "l", "i", "e", "r", "F", "o", "u", "n", "d">>,
       <<"a", "m", "o", "u", "n", "t">>,
       <<"c", "o", "m", "m", "e", "n", "t">>,
       <<"a", "c", "c", "o", "u", "n", "t", "N", "u", "m">>,
       <<"a", "c", "c", "o", "u", "n", "t", "L", "a", "b", "e", "l">>,
       <<"a", "c", "c", "o", "u", "n", "t", "b", "a", "l", "a", "n", "c", "e">> >>

Row1 ==
    << <<"2", "0", "2", "5", "-", "0", "8", "-", "2", "6">>,
       <<"2", "0", "2", "5", "-", "0", "8", "-", "2", "6">>,
       <<"F", "O", "O", "1">>,
       <<"B", "â", "r">>,
       <<"B", "â", "r">>,
       <<"B", "A", "Z">>,
       <<"-", "1", "0", "1", ",", "0", "0">>,
       <<>>,
       <<"4", "2">>,
       <<"B", "o", "u", "r", "s", "o", "B", "a", "n", "k">>,
       <<"1", "0", "5", "7", ".", "2", "4">> >>

Row2 ==
    << <<"2", "0", "2", "5", "-", "0", "8", "-", "2", "6">>,
       <<"2", "0", "2", "5", "-", "0", "8", "-", "2", "6">>,
       <<"F", "O", "O", "2">>,
       <<"B", "ä", "r">>,
       <<"B", "ä", "ä", "r">>,
       <<"b", "a", "z">>,
       <<"-", "1", "2", ",", "5", "0">>,
       <<>>,
       <<"4", "2">>,
       <<"B", "o", "u", "r", "s", "o", "B", "a", "n", "k">>,
       <<"1", "0", "5", "7", ".", "2", "4">> >>

\* the records of the modelled files: the header and the two lines of the
\* from_boursobank_csv example, and the first line with one field spoilt, cut
\* short or followed by one more field
WithField(row, idx, field) == [row EXCEPT ![idx + 1] = field]

BadDateOp == WithField(Row1, 0, <<"2", "0", "2", "5", "-", "0", "9", "-", "4", "2">>)
BadDateVal == WithField(Row1, 1, <<"2", "5", "-", "9", "-", "1", "5">>)
BadAmount == WithField(Row1, 6, <<"a", "b", "c">>)
BadAccount == WithField(Row1, 8, <<"a", "b", "c">>)
BadBalance == WithField(Row1, 10, <<>>)
Short10 == SubSeq(Row1, 1, 10)
Short4 == SubSeq(Row1, 1, 4)
Long12 == Append(Row1, <<"x">>)

RowKinds ==
    {HeaderRow, Row1, Row2, BadDateOp, BadDateVal, BadAmount, BadAccount,
     BadBalance, Short10, Short4, Long12}

Files(n) == UNION { [1..m -> RowKinds] : m \in 0..n }

NoDateCall ==
    /\ pc = "import"
    /\ day = 0
    /\ month = "January"
    /\ year = 0
    /\ date = Unset
    /\ text = <<>>
    /\ sep = "-"
    /\ parsed = Unset
    /\ leap = Unset

\* one import: from_boursobank_csv(file)
Init ==
    /\ NoDateCall
    /\ \E file \in Files(MaxRows) : runs = <<Reader(file)>>

\* two imports, of two files that differ in one record
InitPair ==
    /\ NoDateCall
    /\ \E file \in Files(MaxPairRows) :
          \E i \in 1..Len(file) :
             \E other \in RowKinds \ {file[i]} :
                runs = <<Reader(file), Reader([file EXCEPT ![i] = other])>>

DateUnchanged == UNCHANGED <<pc, day, month, year, date, text, sep, parsed, leap>>

\* a read that returned a record: the first one fixes the number of fields
Advance(run) ==
    [run EXCEPT !.pos = @ + 1,
                !.first_field_count =
                    IF @.some THEN @ ELSE Some(Len(NextRecord(run)))]

\* a data record is next
AtData(run) ==
    /\ run.status = "reading"
    /\ run.pos < Len(run.records)
    /\ ~has_headers \/ run.pos >= 1

\* the first read keeps the first record as the headers and yields nothing
ReadHeaders(k) ==
    /\ runs[k].status = "reading"
    /\ has_headers
    /\ runs[k].pos = 0
    /\ Len(runs[k].records) > 0
    /\ runs' = [runs EXCEPT ![k] = Advance(runs[k])]
    /\ DateUnchanged

\* the read returns Err(UnequalLengths)
RecordErr(k) ==
    /\ AtData(runs[k])
    /\ ~RecordIsOk(runs[k])
    /\ runs' = [runs EXCEPT ![k] = OnBadRecord(runs[k])]
    /\ DateUnchanged

\* the closure returns Some(line): the iterator yields it
RowEmitted(k) ==
    /\ AtData(runs[k])
    /\ RecordIsOk(runs[k])
    /\ LET line == per_row(Boursobank, NextRecord(runs[k]))
       IN  /\ line.some
           /\ runs' = [runs EXCEPT ![k] =
                          [Advance(runs[k]) EXCEPT
                              !.emitted = Append(@, line.val),
                              !.source = Append(@, runs[k].pos + 1)]]
    /\ DateUnchanged

\* the closure returns None: .filter_map(|x| x) passes over it
RowDropped(k) ==
    /\ AtData(runs[k])
    /\ RecordIsOk(runs[k])
    /\ ~per_row(Boursobank, NextRecord(runs[k])).some
    /\ runs' = [runs EXCEPT ![k] = Advance(runs[k])]
    /\ DateUnchanged

\* the source is exhausted: the iterator returns None
Finish(k) ==
    /\ runs[k].status = "reading"
    /\ runs[k].pos = Len(runs[k].records)
    /\ runs' = [runs EXCEPT ![k].status = "done"]
    /\ DateUnchanged

Next ==
    \/ \E k \in DOMAIN runs : ReadHeaders(k)
    \/ \E k \in DOMAIN runs : RecordErr(k)
    \/ \E k \in DOMAIN runs : RowEmitted(k)
    \/ \E k \in DOMAIN runs : RowDropped(k)
    \/ \E k \in DOMAIN runs : Finish(k)

Spec == Init /\ [][Next]_vars

SpecPair == InitPair /\ [][Next]_vars

(***************************************************************************)
(* Claims on the import.                                                   *)
(***************************************************************************)
Range(f) == {f[i] : i \in DOMAIN f}

\* the record passes every stage of the closure
PassesValidation(row) == per_row(Boursobank, row).some

\* the field is not an unsigned decimal number
NotNumeric(field) ==
    \/ field = <<>>
    \/ \E i \in 1..Len(field) : ~IsDigit(field[i])

\* every emitted line comes from a later record than the line before it, and
\* is what the closure makes of that record
EmittedInSourceOrder ==
    \A k \in DOMAIN runs :
        LET run == runs[k]
        IN  /\ Len(run.source) = Len(run.emitted)
            /\ \A i, j \in 1..Len(run.source) : i < j => run.source[i] < run.source[j]
            /\ \A j \in 1..Len(run.source) :
                  /\ run.source[j] \in 1..Len(run.records)
                  /\ Some(run.emitted[j]) = per_row(Boursobank, run.records[run.source[j]])

\* C4: the emitted lines are in the order of their source records, none
\* emitted twice; and when a record with a non-numeric account number is
\* dropped, every other valid record of the file is still in the output.
C4_OrderKeptAndValidRowsAppear ==
    \A k \in DOMAIN runs :
        LET run == runs[k]
        IN  run.status = "done" =>
               /\ \A i, j \in 1..Len(run.source) :
                     i < j => run.source[i] < run.source[j]
               /\ (\E b \in 1..Len(run.records) :
                      /\ Len(run.records[b]) > Boursobank.account_number_idx
                      /\ NotNumeric(run.records[b][Boursobank.account_number_idx + 1])
                      /\ b \notin Range(run.source))
                  => \A i \in 1..Len(run.records) :
                        PassesValidation(run.records[i]) => i \in Range(run.source)

\* C5: the first record is treated like any other: when it passes every
\* validation stage it is emitted, as the first line of the output.
C5_ValidFirstRowIsEmittedFirst ==
    \A k \in DOMAIN runs :
        LET run == runs[k]
        IN  (run.status = "done" /\ run.records # <<>>
             /\ PassesValidation(run.records[1]))
            => /\ run.emitted # <<>>
               /\ run.source[1] = 1
               /\ Some(run.emitted[1]) = per_row(Boursobank, run.records[1])

\* the line emitted for record i, or None when it was dropped
Outcome(run, i) ==
    IF \E j \in 1..Len(run.source) : run.source[j] = i
    THEN Some(run.emitted[CHOOSE j \in 1..Len(run.source) : run.source[j] = i])
    ELSE None

\* C6: a record's outcome does not depend on the other records: in two files
\* holding the same record at a position and differing in another record, the
\* record is emitted by both imports, as the same line, or dropped by both.
C6_RowOutcomeIndependentOfOtherRows ==
    (Len(runs) = 2 /\ runs[1].status = "done" /\ runs[2].status = "done") =>
        \A i \in 1..Len(runs[1].records) :
            runs[1].records[i] = runs[2].records[i]
                => Outcome(runs[1], i) = Outcome(runs[2], i)

\* what is left of an import: the records to read, and the final None
Remaining(run) ==
    2 * (Len(run.records) - run.pos) + (IF run.status = "reading" THEN 1 ELSE 0)

\* the next call of the iterator can proceed: one of the guards of
\* ReadHeaders, RecordErr, RowEmitted, RowDropped and Finish holds
CanStep(k) ==
    \/ runs[k].status = "reading" /\ has_headers /\ runs[k].pos = 0
       /\ Len(runs[k].records) > 0
    \/ AtData(runs[k]) /\ ~RecordIsOk(runs[k])
    \/ AtData(runs[k]) /\ RecordIsOk(runs[k])
       /\ per_row(Boursobank, NextRecord(runs[k])).some
    \/ AtData(runs[k]) /\ RecordIsOk(runs[k])
       /\ ~per_row(Boursobank, NextRecord(runs[k])).some
    \/ runs[k].status = "reading" /\ runs[k].pos = Len(runs[k].records)

\* C7: the import never fails as a whole: it never panics, an import that is
\* not done can always take its next step and every step brings it nearer to
\* its end, and the lines it yields are finite in number, none for an empty
\* file and none for a file without a valid record.
C7_ImportAlwaysCompletes ==
    /\ [](\A k \in DOMAIN runs :
             /\ runs[k].status # "panicked"
             /\ runs[k].status = "done" \/ CanStep(k)
             /\ Len(runs[k].emitted) <= Len(runs[k].records)
             /\ runs[k].status = "done" =>
                   /\ runs[k].pos = Len(runs[k].records)
                   /\ runs[k].records = <<>> => runs[k].emitted = <<>>
                   /\ (\A i \in 1..Len(runs[k].records) :
                          ~PassesValidation(runs[k].records[i]))
                      => runs[k].emitted = <<>>)
    /\ [][\E k \in DOMAIN runs :
             /\ Remaining(runs'[k]) < Remaining(runs[k])
             /\ \A j \in DOMAIN runs \ {k} : runs'[j] = runs[j]]_vars

C7_Witness_MalformedFileDone ==
    \E k \in DOMAIN runs :
        /\ runs[k].status = "done"
        /\ runs[k].records = <<HeaderRow, Short4, BadAccount>>
        /\ runs[k].emitted = <<>>

\* the columns the layout names
ConfiguredIndices(cfg) ==
    {cfg.date_op_idx, cfg.date_val_idx, cfg.label_idx, cfg.supplyer_found_idx,
     cfg.amount_idx, cfg.comment_idx, cfg.account_number_idx,
     cfg.account_label_idx, cfg.account_balance_idx} \cup Range(cfg.category_idx)

\* C8: for every emitted line, no stage failed on its record: every configured
\* column (category columns included) is within the record, both dates and
\* both amounts parse, the account number parses as an unsigned integer; and
\* label, counterparty, comment, account label and categories are the
\* record's fields at the configured columns, verbatim.
C8_EmittedRowsPassedEveryStage ==
    \A k \in DOMAIN runs :
        \A j \in 1..Len(runs[k].emitted) :
            LET row == runs[k].records[runs[k].source[j]]
                line == runs[k].emitted[j]
                cfg == Boursobank
            IN  /\ \A idx \in ConfiguredIndices(cfg) : idx < Len(row)
                /\ date_parser(row[cfg.date_op_idx + 1]) = Some(line.date_op)
                /\ date_parser(row[cfg.date_val_idx + 1]) = Some(line.date_val)
                /\ amount_parser(row[cfg.amount_idx + 1]) = Some(line.amount)
                /\ amount_parser(row[cfg.account_balance_idx + 1])
                      = Some(line.account_balance)
                /\ ParseUnsigned(row[cfg.account_number_idx + 1], 32)
                      = Some(line.account_number)
                /\ line.label = row[cfg.label_idx + 1]
                /\ line.sender_reciever = row[cfg.supplyer_found_idx + 1]
                /\ line.comment = row[cfg.comment_idx + 1]
                /\ line.account_label = row[cfg.account_label_idx + 1]
                /\ Len(line.category) = Len(cfg.category_idx)
                /\ \A c \in 1..Len(cfg.category_idx) :
                      line.category[c] = row[cfg.category_idx[c] + 1]

C8_Witness_BadAccountDroppedOtherEmitted ==
    \E k \in DOMAIN runs :
        /\ runs[k].status = "done"
        /\ runs[k].records = <<HeaderRow, BadAccount, Row2>>
        /\ runs[k].source = <<3>>
        /\ runs[k].emitted[1].label = <<"F", "O", "O", "2">>

\* C9: every line from_boursobank_csv emits has exactly two categories, in
\* the configured order [4, 3]: first the record's column 4, then its column 3.
C9_CategoryFollowsConfiguredOrder ==
    \A k \in DOMAIN runs :
        \A j \in 1..Len(runs[k].emitted) :
            LET row == runs[k].records[runs[k].source[j]]
                line == runs[k].emitted[j]
            IN  /\ Len(line.category) = 2
                /\ line.category[1] = row[5]
                /\ line.category[2] = row[4]

C9_Witness_SecondLineCategory ==
    \E k \in DOMAIN runs :
        /\ runs[k].records = <<HeaderRow, Row1, Row2>>
        /\ Len(runs[k].emitted) = 2
        /\ runs[k].emitted[2].category = << <<"B", "ä", "ä", "r">>, <<"B", "ä", "r">> >>

====
